---------------------------- MODULE Spec2Model ----------------------------
(***************************************************************************)
(* Model of the Conversation Agent Reference Application (src/main.py).    *)
(*                                                                         *)
(* One session of the program: application_initialize, the start of       *)
(* main_loop (system prompt), the turn loop (read a line, classify it,     *)
(* query the language model, render the response, execute the command)    *)
(* and save_chat_log_to_file.                                              *)
(*                                                                         *)
(* Python strings are modelled as sequences of one-character strings, so   *)
(* that lower(), concatenation and comparison are computed and not         *)
(* assumed.  Python's None is the value None below, which is no string.    *)
(***************************************************************************)
EXTENDS Integers, Sequences, FiniteSets, TLC

VARIABLES
    pc,                       \* position of the single thread of control
    exception,                \* the uncaught exception that ended the process, or NoException
    application_state,        \* application [ KEY_APPLICATION_STATE ]
    application_command,      \* application [ KEY_APPLICATION_COMMAND ]
    conversation_history,     \* model [ KEY_MODEL_CONVERSATION_HISTORY ]
    model_streaming_enabled,  \* model [ KEY_MODEL_STREAMING_ENABLED ]
    system_prompt_file,       \* the file data\system_prompt.txt as the process finds it
    user_input,               \* main_loop's local user_input
    model_response,           \* main_loop's local model_response
    response_stream,          \* render_language_model_response's response_stream [ 'content' ]
    model_response_text,      \* main_loop's local model_response_text
    input_lines,              \* the lines input() has returned so far, in order
    stream_chunks,            \* the delta contents the current response stream has yielded so far
    chunks_delivered,         \* number of chunks all streams of the session have yielded
    gateway_requests,         \* the messages argument of every chat.completions.create call
    terminal_clears,          \* number of os.system clear-screen calls
    chat_log_files,           \* the chat_log folder: file index -> file text
    files_written,            \* indexes of the files written so far, by this run and the runs before it
    session_configuration,    \* the other entries of the application and model dictionaries
    user_lines,               \* the lines the user of the terminal may type
    deleted_files             \* indexes of the log files deleted from the folder between runs

vars == << pc, exception, application_state, application_command,
           conversation_history, model_streaming_enabled, system_prompt_file,
           user_input, model_response, response_stream, model_response_text,
           input_lines, stream_chunks, chunks_delivered, gateway_requests,
           terminal_clears, chat_log_files, files_written,
           session_configuration, user_lines, deleted_files >>

-----------------------------------------------------------------------------
(* Bounds of the model. *)

\* Lines one session reads from the terminal.
MaxInputs == 2

\* Chunks the response streams of one session yield in total.
MaxChunks == 2

\* Log files the chat_log folder may hold before the run: indexes 0 .. MaxLogFiles - 1.
MaxLogFiles == 1

\* Runs that save a log into the same chat_log folder, one after the other.
MaxRuns == 2

-----------------------------------------------------------------------------
(* Constants of the program. *)

APPLICATION_STATE_IDLE    == 0
APPLICATION_STATE_RUNNING == 1
APPLICATION_STATE_STOPPED == 2

APPLICATION_COMMAND_NONE           == 0
APPLICATION_COMMAND_EXIT           == 1
APPLICATION_COMMAND_CLEAR_TERMINAL == 2

PROMPT_COMMAND_NONE  == << >>
PROMPT_COMMAND_EXIT  == << "e", "x", "i", "t" >>
PROMPT_COMMAND_CLEAR == << "c", "l", "e", "a", "r" >>

MODEL_MESSAGE_ROLE_SYSTEM == "system"
MODEL_MESSAGE_ROLE_USER   == "user"
MODEL_MESSAGE_ROLE_AI     == "assistant"

MODEL_SYSTEM_PROMPT_DEFAULT ==
    << "Y", "o", "u", " ", "a", "r", "e", " ", "a", " ", "g", "e", "n", "e", "r", "a", "l", " ", "p", "u", "r", "p", "o", "s", "e", " ", "A", "I", " ", "a", "s", "s", "i", "s", "t", "a", "n", "t", ".", " ", "Y", "o", "u", " ", "a", "l", "w", "a", "y", "s", " ", "p", "r", "o", "v", "i", "d", "e", " ", "w", "e", "l", "l", "-", "r", "e", "a", "s", "o", "n", "e", "d", " ", "a", "n", "s", "w", "e", "r", "s", " ", "t", "h", "a", "t", " ", "a", "r", "e", " ", "b", "o", "t", "h", " ", "c", "o", "r", "r", "e", "c", "t", " ", "a", "n", "d", " ", "h", "e", "l", "p", "f", "u", "l", "." >>

\* Python's None: a value that equals no string (every element of a string is
\* one character long).
None == << "None" >>

NoException == "none"

-----------------------------------------------------------------------------
(* Strings. *)

UpperCase == << "A", "B", "C", "D", "E", "F", "G", "H", "I", "J", "K", "L", "M",
                "N", "O", "P", "Q", "R", "S", "T", "U", "V", "W", "X", "Y", "Z" >>
LowerCase == << "a", "b", "c", "d", "e", "f", "g", "h", "i", "j", "k", "l", "m",
                "n", "o", "p", "q", "r", "s", "t", "u", "v", "w", "x", "y", "z" >>

\* str.lower () on one character.
LowerChar(c) ==
    IF \E i \in 1..Len(UpperCase) : UpperCase[i] = c
    THEN LowerCase[CHOOSE i \in 1..Len(UpperCase) : UpperCase[i] = c]
    ELSE c

\* str.lower ().
Lower(s) == [i \in 1..Len(s) |-> LowerChar(s[i])]

\* str ( x ) as an f-string formats a value: None is written as the text None.
Format(x) == IF x = None THEN << "N", "o", "n", "e" >> ELSE x

\* Truth value of a delta content: None and the empty string are falsy.
Truthy(x) == x # None /\ x # << >>

-----------------------------------------------------------------------------
(* The environment: what the terminal, the files and the gateway may deliver. *)

\* Lines the user may type.
InputLines ==
    { << "e", "x", "i", "t" >>,            \* exit
      << "e", "X", "I", "T" >>,            \* eXIT
      << " ", "E", "x", "i", "t" >>,       \* " Exit"
      << "e", "x", "i", "t", " " >>,       \* "exit "
      << "c", "l", "e", "a", "r" >>,       \* clear
      << "C", "L", "e", "a", "r" >>,       \* CLear
      << >> }                              \* the empty line

\* Delta contents a streamed chunk may carry.
Fragments == { None, << >>, << "H", "i" >>, << "!" >> }

\* message.content values of a complete (non-streamed) response.
CompletionContents == { None, << >>, << "H", "i", "!" >> }

\* str ( e ) of the exceptions chat.completions.create may raise.
ExceptionTexts == { << "C", "o", "n", "n", "e", "c", "t", "i", "o", "n", " ", "e", "r", "r", "o", "r", "." >> }

\* Contents of a system prompt file that can be read.
PromptFileTexts == { << >>, << "B", "e", " ", "b", "r", "i", "e", "f", ".", "\n" >> }

\* The states the system prompt file may be in.
PromptFiles ==
    { [status |-> "absent",      text |-> << >>],
      [status |-> "unreadable",  text |-> << >>],
      [status |-> "undecodable", text |-> << >>] }
    \cup { [status |-> "present", text |-> x] : x \in PromptFileTexts }

\* The lines of a user who types exit at the first prompt.
ExitLines == { << "e", "x", "i", "t" >> }

\* Text of a log file left by an earlier run.
OldLogText == << "old" >>

-----------------------------------------------------------------------------
(* Functions of the program. *)

\* Faulty variants of AddMessage, which the properties must tell from it:
\* one drops an empty message, one inserts the message at the front, one
\* stores the message in lower case.
AddMessage_SkipEmpty(history, message, message_role) ==
    IF message = << >>
    THEN history
    ELSE Append(history, [role |-> message_role, content |-> message])

AddMessage_Prepend(history, message, message_role) ==
    << [role |-> message_role, content |-> message] >> \o history

AddMessage_Lowered(history, message, message_role) ==
    Append(history, [role |-> message_role, content |-> Lower(message)])

\* A faulty variant of AddMessage that makes room by dropping the oldest
\* message after the system message.
AddMessage_DropOldest(history, message, message_role) ==
    IF Len(history) >= 3
    THEN Append(<< history[1] >> \o SubSeq(history, 3, Len(history)),
                [role |-> message_role, content |-> message])
    ELSE Append(history, [role |-> message_role, content |-> message])

\* A faulty variant of AddMessage that gives every message the user role.
AddMessage_AlwaysUser(history, message, message_role) ==
    Append(history, [role |-> MODEL_MESSAGE_ROLE_USER, content |-> message])

\* add_message_to_conversation_history: the history after the append.
AddMessage(history, message, message_role) ==
    Append(history, [role |-> message_role, content |-> message])

\* A faulty variant of get_application_command that compares the line as typed.
get_application_command_NoLower(user_prompt) ==
    IF user_prompt = PROMPT_COMMAND_EXIT THEN APPLICATION_COMMAND_EXIT
    ELSE IF user_prompt = PROMPT_COMMAND_CLEAR THEN APPLICATION_COMMAND_CLEAR_TERMINAL
    ELSE APPLICATION_COMMAND_NONE

\* A faulty variant of get_application_command that knows exit only.
get_application_command_ExitOnly(user_prompt) ==
    IF Lower(user_prompt) = PROMPT_COMMAND_EXIT
    THEN APPLICATION_COMMAND_EXIT
    ELSE APPLICATION_COMMAND_NONE

\* A faulty variant of get_application_command that matches the line against
\* PROMPT_COMMAND_NONE too and takes the empty line for a command.
get_application_command_MatchesNone(user_prompt) ==
    LET lowered == Lower(user_prompt)
    IN  IF lowered = PROMPT_COMMAND_EXIT THEN APPLICATION_COMMAND_EXIT
        ELSE IF lowered = PROMPT_COMMAND_CLEAR THEN APPLICATION_COMMAND_CLEAR_TERMINAL
        ELSE IF lowered = PROMPT_COMMAND_NONE THEN APPLICATION_COMMAND_CLEAR_TERMINAL
        ELSE APPLICATION_COMMAND_NONE

\* get_application_command.
get_application_command(user_prompt) ==
    LET lowered == Lower(user_prompt)
    IN  IF lowered = PROMPT_COMMAND_EXIT THEN APPLICATION_COMMAND_EXIT
        ELSE IF lowered = PROMPT_COMMAND_CLEAR THEN APPLICATION_COMMAND_CLEAR_TERMINAL
        ELSE APPLICATION_COMMAND_NONE

\* load_text_to_string: the value returned, or the exception that leaves it.
\* FileNotFoundError and IOError are caught and the function then ends without
\* a return statement, which returns None; a decoding error is a ValueError
\* and is not caught.
load_text_to_string(file) ==
    CASE file.status = "present"     -> [raised |-> NoException, value |-> file.text]
      [] file.status = "absent"      -> [raised |-> NoException, value |-> None]
      [] file.status = "unreadable"  -> [raised |-> NoException, value |-> None]
      [] file.status = "undecodable" -> [raised |-> "UnicodeDecodeError", value |-> None]

\* main_loop's choice of the system prompt from the loaded text.
SystemPrompt(loaded) ==
    IF loaded = << >> THEN MODEL_SYSTEM_PROMPT_DEFAULT ELSE loaded

\* The string query_language_model returns when the call raises e.
ErrorString(e) ==
    << "\n", "[", "E", "R", "R", "O", "R", "]", "\n" >> \o e \o << "\n" >>

\* A faulty variant of StreamAccumulate that puts the new fragment in front.
StreamAccumulate_Prepend(content, delta) ==
    IF Truthy(delta) THEN delta \o content ELSE content

\* One pass of the body of the renderer's for loop: the accumulator afterwards.
StreamAccumulate(content, delta) ==
    IF Truthy(delta) THEN content \o delta ELSE content

\* A faulty variant of ExecuteState that stops on any command.
ExecuteState_StopOnCommand(state, command) ==
    IF command # APPLICATION_COMMAND_NONE THEN APPLICATION_STATE_STOPPED ELSE state

\* A faulty variant of ExecuteState that lets no command stop the run.
ExecuteState_NeverStops(state, command) == state

\* execute_application_command: the run state afterwards.
ExecuteState(state, command) ==
    IF command = APPLICATION_COMMAND_EXIT THEN APPLICATION_STATE_STOPPED ELSE state

\* A faulty variant of CommandAfterExecute that leaves the command pending.
CommandAfterExecute_NoReset(command) == command

\* execute_application_command: the pending command afterwards.
CommandAfterExecute(command) == APPLICATION_COMMAND_NONE

\* A faulty variant of LoopContinues that ends the loop after one pass.
LoopContinues_Never(state) == FALSE

\* A faulty variant of LoopContinues that goes on in every state but IDLE.
LoopContinues_NotIdle(state) == state # APPLICATION_STATE_IDLE

\* The condition of main_loop's while.
LoopContinues(state) == state = APPLICATION_STATE_RUNNING

\* execute_application_command: whether the terminal is cleared.
ExecuteClears(command) == command = APPLICATION_COMMAND_CLEAR_TERMINAL

\* Faulty variants of NextFileIndex: one numbers the file past the highest
\* existing index, one does not probe at all.
NextFileIndex_PastMaximum(files, file_index) ==
    IF DOMAIN files = {}
    THEN file_index
    ELSE (CHOOSE i \in DOMAIN files : \A j \in DOMAIN files : j <= i) + 1

NextFileIndex_NoProbe(files, file_index) == file_index

\* save_chat_log_to_file's probe: the first index from file_index on that
\* names no existing file.
RECURSIVE NextFileIndex(_, _)
NextFileIndex(files, file_index) ==
    IF file_index \in DOMAIN files
    THEN NextFileIndex(files, file_index + 1)
    ELSE file_index

\* A faulty variant of LogRow that leaves out the blank line.
LogRow_NoBlankLine(row) ==
    << "[", row.role, "]", "\n" >> \o Format(row.content) \o << "\n" >>

\* One row of the log: [role], newline, content, blank line.
LogRow(row) ==
    << "[", row.role, "]", "\n" >> \o Format(row.content) \o << "\n", "\n" >>

\* The rows save_chat_log_to_file writes for the history from row_index on.
RECURSIVE LogRows(_, _, _)
LogRows(history, row_index, include_system_prompt_enabled) ==
    IF row_index >= Len(history) THEN << >>
    ELSE (IF row_index > 0 \/ include_system_prompt_enabled
          THEN LogRow(history[row_index + 1])
          ELSE << >>)
         \o LogRows(history, row_index + 1, include_system_prompt_enabled)

\* The header block of the log, ending with its blank line.
LogHeader(streaming_enabled) ==
    << "\nApplication:\n",
       "- Name:    ", session_configuration.name, "\n",
       "- Version: ", session_configuration.version, "\n",
       "\nModel:\n",
       "- Name:              ", session_configuration.model_name, "\n",
       "- Max Tokens:        ", ToString(session_configuration.max_tokens), "\n",
       "- Temperature:       ", session_configuration.temperature, "\n",
       "- Streaming Enabled: ", IF streaming_enabled THEN "True" ELSE "False", "\n",
       "\n" >>

\* A faulty variant of ChatLogText that always writes the system message's row.
ChatLogText_WithSystemRow(history, streaming_enabled, include_system_prompt_enabled) ==
    LogHeader(streaming_enabled) \o LogRows(history, 0, TRUE)

\* The text save_chat_log_to_file writes.
ChatLogText(history, streaming_enabled, include_system_prompt_enabled) ==
    LogHeader(streaming_enabled) \o LogRows(history, 0, include_system_prompt_enabled)

-----------------------------------------------------------------------------
(* The state machine. *)

\* A local variable that has not been assigned yet.
Unassigned == << "unassigned" >>

\* The include_system_prompt_enabled argument main_loop passes to save_chat_log_to_file.
IncludeSystemPromptEnabled == FALSE

\* An exception nothing catches ends the process where it stands.
Abort(e) ==
    /\ pc' = "aborted"
    /\ exception' = e

\* The entries application_initialize gives the application and model
\* dictionaries besides the command, the state, the streaming flag and the
\* conversation history.
InitialConfiguration ==
    [ name                    |-> "Conversation Agent Reference Application",
      version                 |-> "2.0",
      agent_name_user         |-> "User",
      agent_name_ai           |-> "AI",
      chat_log_folder         |-> "chat_log",
      chat_log_file_name      |-> "chat_log_",
      chat_log_file_extension |-> ".txt",
      model_name              |-> "gpt-3.5-turbo",
      max_tokens              |-> 1024,
      temperature             |-> "0.7" ]

\* The state when application_initialize has returned, or has raised KeyError
\* because the environment holds no OPENAI_API_KEY, at a terminal whose user
\* may type the given lines.
InitFor(lines) ==
    /\ \E api_key_present \in BOOLEAN :
          IF api_key_present
          THEN pc = "main_loop" /\ exception = NoException
          ELSE pc = "aborted" /\ exception = "KeyError"
    /\ application_state = APPLICATION_STATE_IDLE
    /\ application_command = APPLICATION_COMMAND_NONE
    /\ conversation_history = << >>
    /\ model_streaming_enabled \in BOOLEAN
    /\ system_prompt_file \in PromptFiles
    /\ user_input = Unassigned
    /\ model_response = [type |-> "unassigned", content |-> Unassigned]
    /\ response_stream = Unassigned
    /\ model_response_text = Unassigned
    /\ input_lines = << >>
    /\ stream_chunks = << >>
    /\ chunks_delivered = 0
    /\ gateway_requests = << >>
    /\ terminal_clears = 0
    /\ \E existing \in SUBSET (0 .. MaxLogFiles - 1) :
          chat_log_files = [i \in existing |-> OldLogText]
    /\ files_written = << >>
    /\ session_configuration = InitialConfiguration
    /\ user_lines = lines
    /\ deleted_files = {}

Init == InitFor(InputLines)

\* main_loop up to the while: load the system prompt, append the system
\* message, reset the command and enter RUNNING.
MainLoopStart ==
    /\ pc = "main_loop"
    /\ LET loaded == load_text_to_string(system_prompt_file)
       IN  IF loaded.raised # NoException
           THEN /\ Abort(loaded.raised)
                /\ UNCHANGED << application_state, application_command, conversation_history >>
           ELSE /\ conversation_history' =
                      AddMessage(conversation_history, SystemPrompt(loaded.value),
                                 MODEL_MESSAGE_ROLE_SYSTEM)
                /\ application_command' = APPLICATION_COMMAND_NONE
                /\ application_state' = APPLICATION_STATE_RUNNING
                /\ pc' = "get_user_prompt"
                /\ UNCHANGED exception
    /\ UNCHANGED << model_streaming_enabled, system_prompt_file, user_input,
                    model_response, response_stream, model_response_text,
                    input_lines, stream_chunks, chunks_delivered,
                    gateway_requests, terminal_clears, chat_log_files, files_written >>
    /\ UNCHANGED << session_configuration, user_lines, deleted_files >>

\* One pass of the while from input () to the call of query_language_model:
\* read a line, classify it and, when it is no command, append it as the
\* user message.
ReadUserInput ==
    /\ pc = "get_user_prompt"
    /\ Len(input_lines) < MaxInputs
    /\ \E line \in user_lines :
          /\ input_lines' = Append(input_lines, line)
          /\ user_input' = line
          /\ application_command' = get_application_command(line)
          /\ IF application_command' = APPLICATION_COMMAND_NONE
             THEN /\ conversation_history' =
                        AddMessage(conversation_history, line, MODEL_MESSAGE_ROLE_USER)
                  /\ pc' = "query_language_model"
             ELSE /\ UNCHANGED conversation_history
                  /\ pc' = "execute_application_command"
    /\ UNCHANGED << exception, application_state, model_streaming_enabled,
                    system_prompt_file, model_response, response_stream,
                    model_response_text, stream_chunks, chunks_delivered,
                    gateway_requests, terminal_clears, chat_log_files, files_written >>
    /\ UNCHANGED << session_configuration, user_lines, deleted_files >>

\* input () when the terminal has no more lines: EOFError, which nothing catches.
ReadEndOfInput ==
    /\ pc = "get_user_prompt"
    /\ Abort("EOFError")
    /\ UNCHANGED << application_state, application_command, conversation_history,
                    model_streaming_enabled, system_prompt_file, user_input,
                    model_response, response_stream, model_response_text,
                    input_lines, stream_chunks, chunks_delivered,
                    gateway_requests, terminal_clears, chat_log_files, files_written >>
    /\ UNCHANGED << session_configuration, user_lines, deleted_files >>

\* The responses chat.completions.create may return in the configured mode.
GatewayResponses(streaming_enabled) ==
    IF streaming_enabled
    THEN { [type |-> "Stream", content |-> None] }
    ELSE { [type |-> "ChatCompletion", content |-> c] : c \in CompletionContents }

\* query_language_model: the call returns a response object, or raises and the
\* except clause returns the error string in its place.
QueryLanguageModel ==
    /\ pc = "query_language_model"
    /\ gateway_requests' = Append(gateway_requests, conversation_history)
    /\ \/ \E response \in GatewayResponses(model_streaming_enabled) :
             model_response' = response
       \/ \E e \in ExceptionTexts :
             model_response' = [type |-> "str", content |-> ErrorString(e)]
    /\ stream_chunks' = << >>
    /\ pc' = "render_language_model_response"
    /\ UNCHANGED << exception, application_state, application_command,
                    conversation_history, model_streaming_enabled,
                    system_prompt_file, user_input, response_stream,
                    model_response_text, input_lines, chunks_delivered,
                    terminal_clears, chat_log_files, files_written >>
    /\ UNCHANGED << session_configuration, user_lines, deleted_files >>

\* A faulty variant of RenderBegin that stores the compiled terminal prompt
\* as the agent name.
RenderBegin_StoresPrompt ==
    /\ pc = "render_language_model_response"
    /\ IF model_streaming_enabled
       THEN /\ response_stream' = << >>
            /\ pc' = "render_stream"
       ELSE /\ UNCHANGED response_stream
            /\ pc' = "render_complete"
    /\ UNCHANGED << exception, application_state, application_command,
                    conversation_history, model_streaming_enabled,
                    system_prompt_file, user_input, model_response,
                    model_response_text, input_lines, stream_chunks,
                    chunks_delivered, gateway_requests, terminal_clears,
                    chat_log_files, files_written >>
    /\ session_configuration' =
          [session_configuration EXCEPT !.agent_name_ai = "[AI]"]
    /\ UNCHANGED << user_lines, deleted_files >>

\* render_language_model_response up to the branch on the streaming flag:
\* the prompt is printed and, for a streamed response, the accumulator starts
\* empty.
RenderBegin ==
    /\ pc = "render_language_model_response"
    /\ IF model_streaming_enabled
       THEN /\ response_stream' = << >>
            /\ pc' = "render_stream"
       ELSE /\ UNCHANGED response_stream
            /\ pc' = "render_complete"
    /\ UNCHANGED << exception, application_state, application_command,
                    conversation_history, model_streaming_enabled,
                    system_prompt_file, user_input, model_response,
                    model_response_text, input_lines, stream_chunks,
                    chunks_delivered, gateway_requests, terminal_clears,
                    chat_log_files, files_written >>
    /\ UNCHANGED << session_configuration, user_lines, deleted_files >>

\* The renderer returns response_text and main_loop appends it as the
\* assistant message.
ReturnResponseText(response_text) ==
    /\ model_response_text' = response_text
    /\ conversation_history' =
          AddMessage(conversation_history, response_text, MODEL_MESSAGE_ROLE_AI)
    /\ pc' = "execute_application_command"

\* One pass of the for loop over a response stream: the stream yields a chunk.
RenderStreamChunk ==
    /\ pc = "render_stream"
    /\ model_response.type = "Stream"
    /\ chunks_delivered < MaxChunks
    /\ \E delta \in Fragments :
          /\ stream_chunks' = Append(stream_chunks, delta)
          /\ response_stream' = StreamAccumulate(response_stream, delta)
    /\ chunks_delivered' = chunks_delivered + 1
    /\ UNCHANGED << pc, exception, application_state, application_command,
                    conversation_history, model_streaming_enabled,
                    system_prompt_file, user_input, model_response,
                    model_response_text, input_lines, gateway_requests,
                    terminal_clears, chat_log_files, files_written >>
    /\ UNCHANGED << session_configuration, user_lines, deleted_files >>

\* The response stream is exhausted: the for loop ends and the accumulated
\* text is returned.
RenderStreamEnd ==
    /\ pc = "render_stream"
    /\ model_response.type = "Stream"
    /\ ReturnResponseText(response_stream)
    /\ UNCHANGED << exception, application_state, application_command,
                    model_streaming_enabled, system_prompt_file, user_input,
                    model_response, response_stream, input_lines, stream_chunks,
                    chunks_delivered, gateway_requests, terminal_clears,
                    chat_log_files, files_written >>
    /\ UNCHANGED << session_configuration, user_lines, deleted_files >>

\* A faulty variant of RenderStreamRaise that keeps the fragments received
\* so far as the assistant message before the error leaves the program.
RenderStreamRaise_KeepsPartial ==
    /\ pc = "render_stream"
    /\ model_response.type = "Stream"
    /\ Abort("APIError")
    /\ conversation_history' =
          AddMessage(conversation_history, response_stream, MODEL_MESSAGE_ROLE_AI)
    /\ UNCHANGED << application_state, application_command,
                    model_streaming_enabled, system_prompt_file, user_input,
                    model_response, response_stream, model_response_text,
                    input_lines, stream_chunks, chunks_delivered,
                    gateway_requests, terminal_clears, chat_log_files, files_written >>
    /\ UNCHANGED << session_configuration, user_lines, deleted_files >>

\* The response stream raises while it is drained: nothing catches it.
RenderStreamRaise ==
    /\ pc = "render_stream"
    /\ model_response.type = "Stream"
    /\ Abort("APIError")
    /\ UNCHANGED << application_state, application_command, conversation_history,
                    model_streaming_enabled, system_prompt_file, user_input,
                    model_response, response_stream, model_response_text,
                    input_lines, stream_chunks, chunks_delivered,
                    gateway_requests, terminal_clears, chat_log_files, files_written >>
    /\ UNCHANGED << session_configuration, user_lines, deleted_files >>

\* The for loop over the error string query_language_model returned: the
\* loop iterates over its characters, and the first one has no attribute
\* choices (AttributeError); over an empty string the loop body never runs.
RenderStreamOfString ==
    /\ pc = "render_stream"
    /\ model_response.type = "str"
    /\ IF model_response.content = << >>
       THEN /\ ReturnResponseText(response_stream)
            /\ UNCHANGED exception
       ELSE /\ Abort("AttributeError")
            /\ UNCHANGED << conversation_history, model_response_text >>
    /\ UNCHANGED << application_state, application_command,
                    model_streaming_enabled, system_prompt_file, user_input,
                    model_response, response_stream, input_lines, stream_chunks,
                    chunks_delivered, gateway_requests, terminal_clears,
                    chat_log_files, files_written >>
    /\ UNCHANGED << session_configuration, user_lines, deleted_files >>

\* The non-streaming branch: model_response.choices [ 0 ].message.content,
\* which a string does not have (AttributeError).
RenderComplete ==
    /\ pc = "render_complete"
    /\ IF model_response.type = "ChatCompletion"
       THEN /\ ReturnResponseText(model_response.content)
            /\ UNCHANGED exception
       ELSE /\ Abort("AttributeError")
            /\ UNCHANGED << conversation_history, model_response_text >>
    /\ UNCHANGED << application_state, application_command,
                    model_streaming_enabled, system_prompt_file, user_input,
                    model_response, response_stream, input_lines, stream_chunks,
                    chunks_delivered, gateway_requests, terminal_clears,
                    chat_log_files, files_written >>
    /\ UNCHANGED << session_configuration, user_lines, deleted_files >>

\* execute_application_command and the test of the while condition.
ExecuteApplicationCommand ==
    /\ pc = "execute_application_command"
    /\ application_state' = ExecuteState(application_state, application_command)
    /\ terminal_clears' = IF ExecuteClears(application_command)
                          THEN terminal_clears + 1
                          ELSE terminal_clears
    /\ application_command' = CommandAfterExecute(application_command)
    /\ pc' = IF LoopContinues(application_state')
             THEN "get_user_prompt"
             ELSE "save_chat_log_to_file"
    /\ UNCHANGED << exception, conversation_history, model_streaming_enabled,
                    system_prompt_file, user_input, model_response,
                    response_stream, model_response_text, input_lines,
                    stream_chunks, chunks_delivered, gateway_requests,
                    chat_log_files, files_written >>
    /\ UNCHANGED << session_configuration, user_lines, deleted_files >>

\* save_chat_log_to_file: the file with the first unused index is written,
\* and main_loop and main return.
SaveChatLogToFile ==
    /\ pc = "save_chat_log_to_file"
    /\ LET file_index == NextFileIndex(chat_log_files, 0)
           text == ChatLogText(conversation_history, model_streaming_enabled,
                               IncludeSystemPromptEnabled)
       IN  /\ chat_log_files' =
                 [i \in DOMAIN chat_log_files \cup {file_index} |->
                    IF i = file_index THEN text ELSE chat_log_files[i]]
           /\ files_written' = Append(files_written, file_index)
    /\ pc' = "exit"
    /\ UNCHANGED << exception, application_state, application_command,
                    conversation_history, model_streaming_enabled,
                    system_prompt_file, user_input, model_response,
                    response_stream, model_response_text, input_lines,
                    stream_chunks, chunks_delivered, gateway_requests,
                    terminal_clears >>
    /\ UNCHANGED << session_configuration, user_lines, deleted_files >>

\* save_chat_log_to_file when os.makedirs or open raises: nothing catches it
\* and no file is written.
SaveChatLogFails ==
    /\ pc = "save_chat_log_to_file"
    /\ Abort("OSError")
    /\ UNCHANGED << application_state, application_command, conversation_history,
                    model_streaming_enabled, system_prompt_file, user_input,
                    model_response, response_stream, model_response_text,
                    input_lines, stream_chunks, chunks_delivered,
                    gateway_requests, terminal_clears, chat_log_files, files_written >>
    /\ UNCHANGED << session_configuration, user_lines, deleted_files >>

Next ==
    \/ MainLoopStart
    \/ ReadUserInput
    \/ ReadEndOfInput
    \/ QueryLanguageModel
    \/ RenderBegin
    \/ RenderStreamChunk
    \/ RenderStreamEnd
    \/ RenderStreamRaise
    \/ RenderStreamOfString
    \/ RenderComplete
    \/ ExecuteApplicationCommand
    \/ SaveChatLogToFile
    \/ SaveChatLogFails

Spec == Init /\ [][Next]_vars

\* The steps the program takes by itself: every step but the reading of a
\* line, for which it waits on the user.
ProgramStep ==
    \/ MainLoopStart
    \/ QueryLanguageModel
    \/ RenderBegin
    \/ RenderStreamChunk
    \/ RenderStreamEnd
    \/ RenderStreamRaise
    \/ RenderStreamOfString
    \/ RenderComplete
    \/ ExecuteApplicationCommand
    \/ SaveChatLogToFile
    \/ SaveChatLogFails

\* The program is one thread that runs on whenever it does not wait for the
\* user, and a call of the gateway or of the file system returns or raises.
SpecLive == Init /\ [][Next]_vars /\ WF_vars(ProgramStep)

-----------------------------------------------------------------------------
(* Runs of the program one after the other on the same chat_log folder. *)

\* The process has ended and the program is started again: main and
\* application_initialize run anew, the folder is as the last run left it.
StartNextRun ==
    /\ pc \in { "exit", "aborted" }
    /\ Len(files_written) < MaxRuns
    /\ \E api_key_present \in BOOLEAN :
          IF api_key_present
          THEN pc' = "main_loop" /\ exception' = NoException
          ELSE pc' = "aborted" /\ exception' = "KeyError"
    /\ application_state' = APPLICATION_STATE_IDLE
    /\ application_command' = APPLICATION_COMMAND_NONE
    /\ conversation_history' = << >>
    /\ user_input' = Unassigned
    /\ model_response' = [type |-> "unassigned", content |-> Unassigned]
    /\ response_stream' = Unassigned
    /\ model_response_text' = Unassigned
    /\ input_lines' = << >>
    /\ stream_chunks' = << >>
    /\ chunks_delivered' = 0
    /\ gateway_requests' = << >>
    /\ terminal_clears' = 0
    /\ session_configuration' = InitialConfiguration
    /\ UNCHANGED << model_streaming_enabled, system_prompt_file, chat_log_files,
                    files_written, user_lines, deleted_files >>

\* Between two runs somebody deletes a log file from the folder.
DeleteLogFile ==
    /\ pc \in { "exit", "aborted" }
    /\ \E i \in DOMAIN chat_log_files :
          /\ chat_log_files' = [j \in DOMAIN chat_log_files \ {i} |-> chat_log_files[j]]
          /\ deleted_files' = deleted_files \cup {i}
    /\ UNCHANGED << pc, exception, application_state, application_command,
                    conversation_history, model_streaming_enabled,
                    system_prompt_file, user_input, model_response,
                    response_stream, model_response_text, input_lines,
                    stream_chunks, chunks_delivered, gateway_requests,
                    terminal_clears, files_written, session_configuration,
                    user_lines >>

\* Sessions whose user types exit at the first prompt.
InitRuns == InitFor(ExitLines)

\* The steps of such sessions and of the folder between them; no turn is
\* taken in them, so the gateway and the renderer have no step.
NextRuns ==
    \/ MainLoopStart
    \/ ReadUserInput
    \/ ReadEndOfInput
    \/ ExecuteApplicationCommand
    \/ SaveChatLogToFile
    \/ SaveChatLogFails
    \/ StartNextRun
    \/ DeleteLogFile

SpecRuns == InitRuns /\ [][NextRuns]_vars

-----------------------------------------------------------------------------
(* Vocabulary of the properties. *)

\* Every spelling of exit and of clear in upper and lower case letters,
\* written out letter by letter.
ExitSpellings ==
    { << a, b, c, d >> : a \in {"e", "E"}, b \in {"x", "X"},
                         c \in {"i", "I"}, d \in {"t", "T"} }
ClearSpellings ==
    { << a, b, c, d, e >> : a \in {"c", "C"}, b \in {"l", "L"}, c \in {"e", "E"},
                            d \in {"a", "A"}, e \in {"r", "R"} }

\* A line that is neither command: an ordinary line.
OrdinaryLine(line) == line \notin ExitSpellings \cup ClearSpellings

\* Number of ordinary lines read so far.
OrdinaryInputs ==
    Cardinality({ i \in 1..Len(input_lines) : OrdinaryLine(input_lines[i]) })

\* The gateway call of the current turn raised: query_language_model returned
\* the error string.
GatewayFailed == model_response.type = "str"

\* The renderer is at work on the response of the current turn.
Rendering ==
    pc \in { "render_language_model_response", "render_stream", "render_complete" }

\* The concatenation of a fragment sequence in received order, a null or
\* empty fragment contributing nothing.
RECURSIVE Concatenation(_)
Concatenation(chunks) ==
    IF chunks = << >> THEN << >>
    ELSE (IF Head(chunks) = None THEN << >> ELSE Head(chunks))
         \o Concatenation(Tail(chunks))

-----------------------------------------------------------------------------
(* Properties. *)

\* C1: when the gateway call of a turn has failed and the renderer is
\* through with it, Conversation State is the history that was sent to the
\* gateway (ending with the turn's user message) followed by exactly one
\* assistant message that holds the error text.
C1_FailureAppendsOneAssistantMessage ==
    (GatewayFailed /\ ~Rendering) =>
        conversation_history =
            Append(gateway_requests[Len(gateway_requests)],
                   [role |-> MODEL_MESSAGE_ROLE_AI, content |-> model_response.content])

\* C2: a gateway failure never ends the process: a turn whose gateway call
\* failed is never followed by an abort.
C2_FailureNeverTerminates ==
    GatewayFailed => pc # "aborted"

\* C3: whenever the main loop is about to read a line, after N ordinary
\* lines (whose gateway calls all succeeded) Conversation State holds
\* 1 + 2N messages.
C3_LengthIsOnePlusTwoN ==
    pc = "get_user_prompt" =>
        Len(conversation_history) = 1 + 2 * OrdinaryInputs

C3_Witness ==
    /\ pc = "get_user_prompt"
    /\ OrdinaryInputs = 2
    /\ Len(conversation_history) = 5

\* C4: in every state with run state RUNNING or STOPPED, Conversation State
\* is non-empty, its first message has role system and no other message has.
C4_OneSystemMessageFirst ==
    application_state \in { APPLICATION_STATE_RUNNING, APPLICATION_STATE_STOPPED } =>
        /\ Len(conversation_history) >= 1
        /\ conversation_history[1].role = MODEL_MESSAGE_ROLE_SYSTEM
        /\ \A i \in 2..Len(conversation_history) :
              conversation_history[i].role # MODEL_MESSAGE_ROLE_SYSTEM

C4_Witness ==
    /\ application_state = APPLICATION_STATE_STOPPED
    /\ Len(conversation_history) >= 3
    /\ conversation_history[1].role = MODEL_MESSAGE_ROLE_SYSTEM

\* C5: once the system message is in place, its content is the default
\* prompt when the system prompt file is absent or unreadable, and the
\* file's full text when the file is present and not empty.
C5_SystemPromptFallback ==
    Len(conversation_history) >= 1 =>
        /\ system_prompt_file.status \in { "absent", "unreadable" } =>
              conversation_history[1].content = MODEL_SYSTEM_PROMPT_DEFAULT
        /\ (system_prompt_file.status = "present" /\ system_prompt_file.text # << >>) =>
              conversation_history[1].content = system_prompt_file.text

\* C6: when the first line is exit, no further line is read, Conversation
\* State keeps length 1, no gateway call is made, and when the process has
\* ended normally exactly one log file has been written: the header alone
\* (inclusion disabled, as main_loop passes); with inclusion enabled the
\* text would be the header and the system message's row.
C6_ExitFirst ==
    (input_lines # << >> /\ input_lines[1] \in ExitSpellings) =>
        /\ Len(input_lines) = 1
        /\ Len(conversation_history) = 1
        /\ gateway_requests = << >>
        /\ Len(files_written) <= 1
        /\ pc = "exit" =>
              /\ Len(files_written) = 1
              /\ files_written[1] \in DOMAIN chat_log_files
              /\ chat_log_files[files_written[1]] = LogHeader(model_streaming_enabled)
              /\ ChatLogText(conversation_history, model_streaming_enabled, TRUE) =
                    LogHeader(model_streaming_enabled) \o LogRow(conversation_history[1])

C6_Witness ==
    /\ pc = "exit"
    /\ input_lines = << << "e", "x", "i", "t" >> >>
    /\ Len(files_written) = 1

\* C7: processing a clear line leaves Conversation State as it was and the
\* run state RUNNING, both when the line is read and classified and when the
\* command is executed; executing it clears the terminal and returns to
\* reading.
C7_ClearChangesNothing ==
    [][ /\ (input_lines' # input_lines
            /\ input_lines'[Len(input_lines')] \in ClearSpellings) =>
               /\ conversation_history' = conversation_history
               /\ application_state' = APPLICATION_STATE_RUNNING
               /\ application_state = APPLICATION_STATE_RUNNING
        /\ (pc = "execute_application_command" /\ user_input \in ClearSpellings) =>
               /\ conversation_history' = conversation_history
               /\ application_state' = APPLICATION_STATE_RUNNING
               /\ pc' = "get_user_prompt"
               /\ terminal_clears' = terminal_clears + 1
               /\ UNCHANGED << gateway_requests, chat_log_files, files_written,
                               exception, model_streaming_enabled >>
      ]_vars

C7_Witness ==
    /\ pc = "get_user_prompt"
    /\ terminal_clears = 1
    /\ user_input = << "C", "L", "e", "a", "r" >>
    /\ Len(conversation_history) = 3
    /\ application_state = APPLICATION_STATE_RUNNING

\* C8: from the classification of a line to the execution of its command,
\* the command is EXIT exactly when the line is a spelling of exit,
\* CLEAR_TERMINAL exactly when it is a spelling of clear and NONE otherwise;
\* a line with a leading or trailing blank is NONE and has been appended as
\* the user message.
C8_CommandClassification ==
    (pc \in { "query_language_model", "execute_application_command" } \/ Rendering) =>
        /\ application_command = APPLICATION_COMMAND_EXIT <=> user_input \in ExitSpellings
        /\ application_command = APPLICATION_COMMAND_CLEAR_TERMINAL
              <=> user_input \in ClearSpellings
        /\ application_command = APPLICATION_COMMAND_NONE <=> OrdinaryLine(user_input)
        /\ (pc = "query_language_model"
            /\ user_input \in { << " ", "E", "x", "i", "t" >>, << "e", "x", "i", "t", " " >> }) =>
               conversation_history[Len(conversation_history)] =
                   [role |-> MODEL_MESSAGE_ROLE_USER, content |-> user_input]

C8_Witness ==
    /\ pc = "query_language_model"
    /\ user_input = << "e", "x", "i", "t", " " >>
    /\ application_command = APPLICATION_COMMAND_NONE

\* C9: when the renderer has drained a response stream, the text it returned
\* is the concatenation of the fragments in received order; while it drains,
\* the accumulator is the concatenation of the fragments received so far.
C9_StreamConcatenation ==
    /\ (pc = "execute_application_command" /\ model_response.type = "Stream") =>
          model_response_text = Concatenation(stream_chunks)
    /\ (pc = "render_stream" /\ model_response.type = "Stream") =>
          response_stream = Concatenation(stream_chunks)

C9_Witness ==
    /\ pc = "execute_application_command"
    /\ model_response.type = "Stream"
    /\ stream_chunks \in { << << "H", "i" >>, None >>, << << >>, << "!" >> >> }
    /\ model_response_text = Concatenation(stream_chunks)

\* C10: when an ordinary turn has been rendered, Conversation State ends
\* with the user message holding the line exactly as read and then the
\* assistant message holding the text the renderer returned, and holds
\* nothing else beyond one such pair per ordinary line.
C10_TurnAppendsUserThenAssistant ==
    (pc = "execute_application_command"
     /\ application_command = APPLICATION_COMMAND_NONE) =>
        LET n == Len(conversation_history)
            r == IF model_streaming_enabled
                 THEN response_stream
                 ELSE model_response.content
        IN  /\ n = 1 + 2 * OrdinaryInputs
            /\ user_input = input_lines[Len(input_lines)]
            /\ conversation_history[n - 1] =
                  [role |-> MODEL_MESSAGE_ROLE_USER, content |-> user_input]
            /\ conversation_history[n] =
                  [role |-> MODEL_MESSAGE_ROLE_AI, content |-> r]
            /\ model_response_text = r
            /\ SubSeq(conversation_history, 1, n - 1) =
                  gateway_requests[Len(gateway_requests)]

C10_Witness ==
    /\ pc = "execute_application_command"
    /\ application_command = APPLICATION_COMMAND_NONE
    /\ user_input = << " ", "E", "x", "i", "t" >>
    /\ conversation_history[Len(conversation_history)].content = << "H", "i", "!" >>
    /\ conversation_history[Len(conversation_history) - 1].content = << " ", "E", "x", "i", "t" >>

\* C11: the file a save writes has the smallest index that names no file of
\* the folder at that moment; the save adds that one file and leaves every
\* existing file as it was; with index 0 free and index 1 taken it writes
\* index 0.
C11_FirstGapAllocation ==
    [][ Len(files_written') > Len(files_written) =>
          LET n == files_written'[Len(files_written')]
          IN  /\ n \notin DOMAIN chat_log_files
              /\ \A m \in 0 .. n - 1 : m \in DOMAIN chat_log_files
              /\ DOMAIN chat_log_files' = DOMAIN chat_log_files \cup {n}
              /\ \A i \in DOMAIN chat_log_files : chat_log_files'[i] = chat_log_files[i]
              /\ (0 \notin DOMAIN chat_log_files /\ 1 \in DOMAIN chat_log_files) => n = 0
      ]_vars

C11_Witness ==
    /\ pc = "exit"
    /\ 0 \in deleted_files
    /\ Len(files_written) = 2
    /\ files_written[2] = 0
    /\ { 0, 1 } \subseteq DOMAIN chat_log_files

\* C12 as stated: the indexes the runs have written so far increase from run
\* to run, so no two runs wrote the same one.
C12_SuffixesIncrease ==
    \A i, j \in 1 .. Len(files_written) :
        i < j => files_written[i] < files_written[j]

\* C12 as amended: as long as no log file has been deleted from the folder,
\* the indexes the runs have written increase from run to run.
C12_SuffixesIncreaseWithoutDeletion ==
    deleted_files = {} =>
        \A i, j \in 1 .. Len(files_written) :
            i < j => files_written[i] < files_written[j]

C12_Witness ==
    /\ deleted_files = {}
    /\ Len(files_written) >= 2
    /\ files_written[1] < files_written[2]
    /\ pc = "exit"

\* The ordinary lines read so far, in order.
OrdinaryLinesRead == SelectSeq(input_lines, OrdinaryLine)

\* C13: the gateway has been called once for every ordinary line read (the
\* call for the line just read being still to come while the program is
\* about to make it) and for no other line; the k-th call was passed the
\* first 2k messages of Conversation State, the system message first and the
\* k-th ordinary line as user message last, and a call just made was passed
\* the whole of Conversation State.
C13_OneCallPerOrdinaryLine ==
    /\ Len(gateway_requests) =
          Len(OrdinaryLinesRead) - (IF pc = "query_language_model" THEN 1 ELSE 0)
    /\ \A k \in 1 .. Len(gateway_requests) :
          LET messages == gateway_requests[k]
          IN  /\ Len(messages) = 2 * k
              /\ messages = SubSeq(conversation_history, 1, 2 * k)
              /\ messages[1].role = MODEL_MESSAGE_ROLE_SYSTEM
              /\ messages[2 * k] =
                    [role |-> MODEL_MESSAGE_ROLE_USER, content |-> OrdinaryLinesRead[k]]
    /\ pc = "render_language_model_response" =>
          gateway_requests[Len(gateway_requests)] = conversation_history

C13_Witness ==
    /\ Len(gateway_requests) = 2
    /\ pc = "render_language_model_response"
    /\ Len(gateway_requests[2]) = 4
    /\ Len(input_lines) = 2

\* The messages rendered one after the other, each as [role], newline,
\* content, newline and the newline of a blank line.
RECURSIVE RenderedMessages(_)
RenderedMessages(messages) ==
    IF messages = << >> THEN << >>
    ELSE LET message == Head(messages)
         IN  << "[", message.role, "]", "\n" >>
             \o (IF message.content = None THEN << "N", "o", "n", "e" >> ELSE message.content)
             \o << "\n", "\n" >>
             \o RenderedMessages(Tail(messages))

\* C14: the log file written at shutdown is the header block, which ends
\* with one blank line, followed by every message of Conversation State but
\* the system message, each rendered once and in order; with inclusion
\* enabled the text would hold every message, the system message first.
C14_LogFileFormat ==
    pc = "exit" =>
        LET text   == chat_log_files[files_written[Len(files_written)]]
            header == LogHeader(model_streaming_enabled)
        IN  /\ header[Len(header)] = "\n"
            /\ text = header \o RenderedMessages(Tail(conversation_history))
            /\ ChatLogText(conversation_history, model_streaming_enabled, TRUE) =
                  header \o RenderedMessages(conversation_history)

C14_Witness ==
    /\ pc = "exit"
    /\ Len(conversation_history) = 3
    /\ conversation_history[2].content = << "e", "x", "i", "t", " " >>
    /\ conversation_history[3].content = << "H", "i", "!" >>

\* C15: the run state becomes STOPPED only in the step that executes the
\* command of an exit line, which leaves the loop for the save; from a state
\* with run state STOPPED the only step is that of the save: the run state
\* stays STOPPED, no line is read, no gateway call is made and Conversation
\* State is not modified.
C15_StoppedIsTerminal ==
    [][ /\ (application_state # APPLICATION_STATE_STOPPED
            /\ application_state' = APPLICATION_STATE_STOPPED) =>
               /\ pc = "execute_application_command"
               /\ user_input \in ExitSpellings
               /\ pc' = "save_chat_log_to_file"
        /\ application_state = APPLICATION_STATE_STOPPED =>
               /\ application_state' = APPLICATION_STATE_STOPPED
               /\ input_lines' = input_lines
               /\ gateway_requests' = gateway_requests
               /\ conversation_history' = conversation_history
               /\ pc = "save_chat_log_to_file"
               /\ pc' \in { "exit", "aborted" }
      ]_vars

C15_Witness ==
    /\ application_state = APPLICATION_STATE_STOPPED
    /\ pc = "exit"
    /\ Len(input_lines) = 2
    /\ Len(gateway_requests) = 1

\* C16: in every step Conversation State before the step is a prefix of
\* Conversation State after it.
C16_AppendOnly ==
    [][ /\ Len(conversation_history) <= Len(conversation_history')
        /\ SubSeq(conversation_history', 1, Len(conversation_history)) =
              conversation_history
      ]_vars

C16_Witness ==
    /\ Len(conversation_history) = 5
    /\ pc = "execute_application_command"
    /\ conversation_history[2].content # conversation_history[4].content

\* C17: no message of Conversation State has a null content.
C17_ContentNeverNull ==
    \A i \in 1 .. Len(conversation_history) :
        conversation_history[i].content # None

\* C18: no step changes Session Configuration: the streaming flag and the
\* other configured entries of the two dictionaries.
C18_ConfigurationUnchanged ==
    [][ /\ session_configuration' = session_configuration
        /\ model_streaming_enabled' = model_streaming_enabled
      ]_vars

C18_Witness ==
    /\ pc = "exit"
    /\ Len(input_lines) = 2
    /\ terminal_clears + Len(gateway_requests) = 1
    /\ session_configuration = InitialConfiguration

\* C20: the pending command is NONE whenever the main loop is about to
\* read a line and when the loop has ended, and every clear line read so
\* far has cleared the terminal once.
C20_CommandConsumed ==
    /\ pc \in { "get_user_prompt", "save_chat_log_to_file", "exit" } =>
          application_command = APPLICATION_COMMAND_NONE
    /\ pc = "get_user_prompt" =>
          terminal_clears =
              Cardinality({ i \in 1 .. Len(input_lines) : input_lines[i] \in ClearSpellings })

C20_Witness ==
    /\ pc = "get_user_prompt"
    /\ terminal_clears = 2
    /\ application_command = APPLICATION_COMMAND_NONE

\* The last line read is exit.
ExitEntered ==
    /\ input_lines # << >>
    /\ input_lines[Len(input_lines)] \in ExitSpellings

\* The process has ended normally: STOPPED was reached, the log file was
\* written and main returned.
EndedNormally ==
    /\ pc = "exit"
    /\ exception = NoException
    /\ application_state = APPLICATION_STATE_STOPPED
    /\ Len(files_written) = 1
    /\ files_written[1] \in DOMAIN chat_log_files

\* C19: once the user has entered exit the program eventually ends normally,
\* with the run state STOPPED and the log file written, unless the file
\* system raises an error while the log is saved.
C19_ExitLeadsToNormalEnd ==
    ExitEntered ~> (EndedNormally \/ exception = "OSError")

C19_Witness ==
    /\ EndedNormally
    /\ ExitEntered
    /\ Len(gateway_requests) = 1
    /\ DOMAIN chat_log_files = { 0, 1 }

\* C21: a run writes at most one log file, and writes it only in the save
\* step, with the run state STOPPED and no exception raised; a run that an
\* exception ended before the save step has written no file, and no step
\* outside the save step changes the folder.
C21_LogOnlyAfterStopped ==
    /\ [](/\ Len(files_written) <= 1
          /\ files_written # << >> =>
                /\ application_state = APPLICATION_STATE_STOPPED
                /\ exception = NoException
                /\ pc = "exit"
          /\ (pc = "aborted" /\ exception # "OSError") => files_written = << >>)
    /\ [][ chat_log_files' # chat_log_files =>
              /\ pc = "save_chat_log_to_file"
              /\ application_state = APPLICATION_STATE_STOPPED
              /\ files_written = << >>
              /\ Len(files_written') = 1
         ]_vars

C21_Witness ==
    /\ pc = "exit"
    /\ Len(files_written) = 1
    /\ Len(conversation_history) = 3
    /\ application_state = APPLICATION_STATE_STOPPED

\* The roles of a history are system and then user, assistant in turn.
AlternatingRoles(history) ==
    /\ history # << >>
    /\ history[1].role = MODEL_MESSAGE_ROLE_SYSTEM
    /\ \A i \in 2 .. Len(history) :
          history[i].role = IF i % 2 = 0 THEN MODEL_MESSAGE_ROLE_USER
                            ELSE MODEL_MESSAGE_ROLE_AI

\* C22: when the loop is about to read a line and when the log is saved, the
\* roles are system followed by whole user, assistant pairs: the last message
\* is the system message or an assistant message and no two neighbours have
\* the same role.
C22_RolesAlternate ==
    pc \in { "get_user_prompt", "save_chat_log_to_file" } =>
        LET n == Len(conversation_history)
        IN  /\ AlternatingRoles(conversation_history)
            /\ n % 2 = 1
            /\ conversation_history[n].role \in
                  { MODEL_MESSAGE_ROLE_SYSTEM, MODEL_MESSAGE_ROLE_AI }
            /\ n = 1 <=> conversation_history[n].role = MODEL_MESSAGE_ROLE_SYSTEM
            /\ \A i \in 1 .. n - 1 :
                  conversation_history[i].role # conversation_history[i + 1].role

C22_Witness ==
    /\ pc = "save_chat_log_to_file"
    /\ Len(conversation_history) = 3
    /\ conversation_history[3].role = MODEL_MESSAGE_ROLE_AI

\* C23: when the response stream has raised while it was drained, the process
\* has aborted, Conversation State is what the gateway was passed for the
\* turn, its last message is the user message of the turn, no text of the
\* fragments received has been kept as a message and no log file is written.
C23_StreamErrorAborts ==
    exception = "APIError" =>
        LET n == Len(conversation_history)
        IN  /\ pc = "aborted"
            /\ model_response.type = "Stream"
            /\ n = 2 * Len(gateway_requests)
            /\ conversation_history = gateway_requests[Len(gateway_requests)]
            /\ conversation_history[n] =
                  [role |-> MODEL_MESSAGE_ROLE_USER, content |-> user_input]
            /\ user_input = input_lines[Len(input_lines)]
            /\ files_written = << >>
            /\ \A i \in DOMAIN chat_log_files : chat_log_files[i] = OldLogText

C23_Witness ==
    /\ exception = "APIError"
    /\ pc = "aborted"
    /\ Concatenation(stream_chunks) = << "H", "i" >>
    /\ response_stream = << "H", "i" >>
    /\ Len(conversation_history) = 2

\* The line read last is the empty line.
EmptyLineRead ==
    /\ input_lines # << >>
    /\ input_lines[Len(input_lines)] = PROMPT_COMMAND_NONE

\* C24: the empty line is no command: it leaves the command NONE and the run
\* state RUNNING and clears nothing; it is appended as a user message with
\* empty content, the gateway is called once for it with that message last,
\* and when the response has been rendered one assistant message follows it.
C24_EmptyLineIsOrdinary ==
    /\ get_application_command(PROMPT_COMMAND_NONE) = APPLICATION_COMMAND_NONE
    /\ OrdinaryLine(PROMPT_COMMAND_NONE)
    /\ EmptyLineRead =>
          LET n     == Len(conversation_history)
              calls == Len(gateway_requests)
              empty == [role |-> MODEL_MESSAGE_ROLE_USER, content |-> << >>]
          IN  /\ application_command = APPLICATION_COMMAND_NONE
              /\ application_state = APPLICATION_STATE_RUNNING
              /\ pc \notin { "save_chat_log_to_file", "exit" }
              /\ pc = "query_language_model" =>
                    /\ calls = Len(OrdinaryLinesRead) - 1
                    /\ n = 2 * (calls + 1)
                    /\ conversation_history[n] = empty
              /\ Rendering =>
                    /\ calls = Len(OrdinaryLinesRead)
                    /\ n = 2 * calls
                    /\ conversation_history[n] = empty
                    /\ gateway_requests[calls] = conversation_history
              /\ pc \in { "execute_application_command", "get_user_prompt" } =>
                    /\ calls = Len(OrdinaryLinesRead)
                    /\ n = 1 + 2 * calls
                    /\ conversation_history[n - 1] = empty
                    /\ conversation_history[n].role = MODEL_MESSAGE_ROLE_AI
                    /\ gateway_requests[calls] = SubSeq(conversation_history, 1, n - 1)

C24_Witness ==
    /\ EmptyLineRead
    /\ pc = "execute_application_command"
    /\ Len(input_lines) = 2
    /\ Len(gateway_requests) = 2
    /\ conversation_history[4] = [role |-> MODEL_MESSAGE_ROLE_USER, content |-> << >>]
    /\ conversation_history[5].content = << "H", "i", "!" >>

=============================================================================
